---- MODULE Spec2Model ----
(***************************************************************************)
(* Model of the PubTator fetch client (src/pubtator_api.py) and of the     *)
(* batch pipeline drivers (src/build_pubmed_nodes_edges.py,                *)
(* src/initial_medgemma_ollama.py).                                        *)
(*                                                                         *)
(* Three specifications share the module:                                  *)
(*   SpecGet    - _throttle/_get, one action per HTTP attempt, with a      *)
(*                clock (ticks of 1/6 s);                                  *)
(*   SpecClient - the client operations as functions of the server's       *)
(*                answers;                                                 *)
(*   Spec       - the pipeline driver main(), one action per loop          *)
(*                iteration, calling the client operations.                *)
(***************************************************************************)
EXTENDS Integers, Sequences, FiniteSets, TLC

VARIABLES
    \* ---- _throttle / _get (SpecGet) ----
    now,          \* time.time(), in ticks of 1/6 s
    g_last_ts,    \* module-level _last_ts (pubtator_api.py:9), read by _throttle
    l_last_ts,    \* the name _last_ts bound inside _get's frame (line 24); NONE = unbound
    gpc,          \* "idle" | "loop" | "returned" | "raised"
    i,            \* loop index of `for i in range(retries + 1)`
    backoff,      \* local backoff, ticks
    attempts,     \* HTTP requests sent by the running _get call
    firstOutcome, \* outcome of the call's first request (NONE before it)
    lastOutcome,  \* outcome of the call's latest request (NONE before it)
    ret_status,   \* status of the response _get returned (NONE if none)
    calls,        \* _get calls started so far
    prev_send,    \* send time of the request before the latest one (NONE if none)
    last_send,    \* send time of the latest request (NONE if none)
    sleeps        \* the backoff sleeps of the running _get call, in order

getVars == <<now, g_last_ts, l_last_ts, gpc, i, backoff, attempts, firstOutcome,
             lastOutcome, ret_status, calls, prev_send, last_send, sleeps>>

\* ---- client operations (SpecClient) ----
VARIABLES
    call,         \* the client operation being called, with its inputs
    res           \* what the call produced (NoRes while pending)

clientVars == <<call, res>>

\* ---- pipeline driver main() (Spec) ----
VARIABLES
    variant,         \* "nodes_edges" (build_pubmed_nodes_edges.py) | "medgemma"
    w,               \* the server of this run: its data and its one fault
    drugs,           \* the seed list (HARDCODED_DRUGS)
    pc,              \* "off" | "stage2" | "stage3" | "stage4" | "json" | "csv"
                     \*   | "done" | "crashed"
    si,              \* stage 2: index of the next seed
    drug_entities,
    de_i, id_i,      \* stage 3: next drug entity and next of its entity ids
    indications,
    dropped_no_rel,
    ind_i, dis_i,    \* stage 4: next indication and next of its disease ids
    all_pmids, total_articles, page,   \* locals of the stage-4 paging loop
    json_file,       \* what json.dump wrote (NoFile before)
    csv_file,        \* the rows csv.writer wrote after the header (NoFile before)
    writes,          \* the artifact files opened for writing so far, in order
    reqs,            \* _get calls made so far in the run
    resolveLog,      \* history: what resolve_chemical_ids returned per seed
    lookupLog,       \* history: what each relation lookup returned
    searchLog        \* history: each call of search_treatment_evidence

driverVars == <<variant, w, drugs, pc, si, drug_entities, de_i, id_i, indications,
                dropped_no_rel, ind_i, dis_i, all_pmids, total_articles, page,
                json_file, csv_file, writes, reqs, resolveLog, lookupLog,
                searchLog>>

vars == <<getVars, clientVars, driverVars>>

----------------------------------------------------------------------------
\* Time is counted in ticks of 1/6 s: 1/3 s = 2 ticks, 0.5 s = 3 ticks.

NONE == -1

\* _MIN_INTERVAL = 1.0 / 3.0 s
MinInterval == 2

\* backoff = 0.5 s
Backoff0 == 3

\* retries: int = 3
Retries == 3

\* a transport-level failure: requests.RequestException instead of a response
EXC == 0

\* model bounds
T0 == 100
MaxCalls == 2
MaxLatency == 1
MaxGap == 1
MaxJitter == 1

Statuses == {200, 400, 404, 429, 500, 502, 503, 504}

Outcomes == Statuses \cup {EXC}

RetryStatuses == {429, 500, 502, 503, 504}

\* the outcomes of an attempt that count as a failed attempt
Transient == RetryStatuses \cup {EXC}

\* time.sleep argument of _throttle (0 when the branch is not taken);
\* jitter stands for 0.05 * random.random()
\* variant: the backoff grows by its first value
NextBackoff_Linear(b) == b + Backoff0

\* backoff *= 2
NextBackoff(b) == b * 2

ThrottleSleep(t, last, jitter) ==
    IF t - last < MinInterval THEN (MinInterval - (t - last)) + jitter ELSE 0

\* What one iteration of _get's loop does with the outcome o of its request.
\* variant: every status other than 200 is retried
GetDecision_RetryAnyError(o, idx, retries) ==
    IF o = EXC
    THEN IF idx < retries THEN "retry" ELSE "raise"
    ELSE IF o # 200 /\ idx < retries THEN "retry" ELSE "return"

\* variant: the loop runs one more time
GetDecision_OneMoreRetry(o, idx, retries) ==
    IF o = EXC
    THEN IF idx <= retries THEN "retry" ELSE "raise"
    ELSE IF o \in RetryStatuses /\ idx <= retries THEN "retry" ELSE "return"

GetDecision(o, idx, retries) ==
    IF o = EXC
    THEN IF idx < retries THEN "retry" ELSE "raise"
    ELSE IF o \in RetryStatuses /\ idx < retries THEN "retry" ELSE "return"

----------------------------------------------------------------------------
\* The client operations of pubtator_api.py, as functions of the server's
\* answers.  An answer is [script, body]: script[k] is the outcome of the
\* k-th HTTP attempt of one _get call, body the JSON served with a response.
\* Each operation takes ans, the answers to its successive _get calls, and
\* yields [raised, exc, val, nreq]: nreq is the number of _get calls made.

\* for i in range(retries + 1): the whole loop of one _get call
RECURSIVE GetLoop(_, _, _)
GetLoop(script, idx, retries) ==
    LET o == script[IF idx + 1 <= Len(script) THEN idx + 1 ELSE Len(script)]
        d == GetDecision(o, idx, retries)
    IN  IF d = "retry"
        THEN GetLoop(script, idx + 1, retries)
        ELSE [raised   |-> d = "raise",
              status   |-> IF d = "return" THEN o ELSE NONE,
              attempts |-> idx + 1]

Get(script) == GetLoop(script, 0, Retries)

\* variant: only a 5xx status raises
RaisesHTTPError_ServerErrorsOnly(status) == status >= 500 /\ status < 600

\* r.raise_for_status(): HTTPError for a 4xx or 5xx status
RaisesHTTPError(status) == status >= 400 /\ status < 600

Raise(exc, n) == [raised |-> TRUE, exc |-> exc, val |-> <<>>, nreq |-> n]

Ret(v, n) == [raised |-> FALSE, exc |-> "none", val |-> v, nreq |-> n]

Min(a, b) == IF a <= b THEN a ELSE b

Max(a, b) == IF a >= b THEN a ELSE b

\* xs[:n]
Prefix(xs, n) == SubSeq(xs, 1, Min(n, Len(xs)))

\* ---- strings: str.lower(), str.strip() and str.startswith("@disease_") on
\* the identifiers and names the model uses
LowerPairs ==
    { <<"@CHEMICAL_metformin", "@chemical_metformin">>,
      <<"@CHEMICAL_Metformin", "@chemical_metformin">>,
      <<"@CHEMICAL_metformin_glucuronide", "@chemical_metformin_glucuronide">>,
      <<"@CHEMICAL_atenolol", "@chemical_atenolol">>,
      <<"@DISEASE_type_2_diabetes", "@disease_type_2_diabetes">>,
      <<"@DISEASE_Type_2_Diabetes", "@disease_type_2_diabetes">>,
      <<"@DISEASE_hypertension", "@disease_hypertension">>,
      <<"@DISEASE_obesity ", "@disease_obesity ">>,
      <<"@DISEASE_obesity", "@disease_obesity">>,
      <<"@GENE_ins", "@gene_ins">>,
      <<"Metformin", "metformin">>,
      <<"Metformin HCl", "metformin hcl">>,
      <<"Metformin-HCl", "metformin-hcl">>,
      <<"Glucophage", "glucophage">>,
      <<"Atenolol", "atenolol">> }

Lower(str) ==
    IF \E pr \in LowerPairs : pr[1] = str
    THEN (CHOOSE pr \in LowerPairs : pr[1] = str)[2]
    ELSE str

Strip(str) ==
    CASE str = "@DISEASE_obesity " -> "@DISEASE_obesity"
      [] str = "@disease_obesity " -> "@disease_obesity"
      [] OTHER -> str

\* str.startswith("@disease_")
StartsWithDisease(str) ==
    str \in {"@disease_type_2_diabetes", "@disease_hypertension",
             "@disease_obesity", "@disease_obesity "}

\* _same_id(a, b); a missing value is ""
SameId(a, b) == Lower(a) = Lower(b)

\* ---- pubtator_entity_autocomplete

\* to_list(d): body.kind tells the JSON shape
ToList(d) == IF d.kind \in {"list", "results", "data"} THEN d.items ELSE <<>>

\* it.get("label") or it.get("name") or it.get("text"); "" = absent
ItemName(it) ==
    IF it.label # "" THEN it.label ELSE IF it.name # "" THEN it.name ELSE it.text

\* it.get("id") or it.get("identifier") or it.get("entity_id") or it.get("_id")
ItemId(it) ==
    IF it.id # "" THEN it.id
    ELSE IF it.identifier # "" THEN it.identifier
    ELSE IF it.entity_id # "" THEN it.entity_id ELSE it.x_id

\* out[name] = ent_id on a dict kept as the sequence of its (key, value) pairs
DictPut(m, k, v) ==
    IF \E j \in DOMAIN m : m[j][1] = k
    THEN [j \in DOMAIN m |-> IF m[j][1] = k THEN <<k, v>> ELSE m[j]]
    ELSE Append(m, <<k, v>>)

RECURSIVE BuildOut(_, _)
BuildOut(data, out) ==
    IF data = <<>> THEN out
    ELSE LET it == Head(data)
         IN  BuildOut(Tail(data),
                      IF ItemName(it) # "" /\ ItemId(it) # ""
                      THEN DictPut(out, ItemName(it), ItemId(it))
                      ELSE out)

PubtatorEntityAutocomplete(limit, strict, ans) ==
    LET r1 == Get(ans[1].script)
    IN  IF r1.raised THEN Raise("RequestException", 1)
        ELSE IF RaisesHTTPError(r1.status)
        THEN IF strict THEN Raise("HTTPError", 1)
             ELSE Ret([map |-> <<>>, total |-> 0], 1)
        ELSE LET total_count == Len(ToList(ans[1].body))
             IN  IF limit # NONE
                 THEN LET r2 == Get(ans[2].script)
                      IN  IF r2.raised THEN Raise("RequestException", 2)
                          ELSE IF RaisesHTTPError(r2.status)
                          THEN IF strict THEN Raise("HTTPError", 2)
                               ELSE Ret([map |-> <<>>, total |-> total_count], 2)
                          ELSE Ret([map   |-> BuildOut(ToList(ans[2].body), <<>>),
                                    total |-> total_count], 2)
                 ELSE Ret([map   |-> BuildOut(ToList(ans[1].body), <<>>),
                           total |-> total_count], 1)

\* ---- relation lookups

\* variant: the rows stay in server order
SortDesc_ServerOrder(items) == items

\* items.sort(key=publications, reverse=True): stable, descending
RECURSIVE SortDesc(_)
SortDesc(items) ==
    IF items = <<>> THEN <<>>
    ELSE LET rest == SortDesc(SubSeq(items, 1, Len(items) - 1))
             x    == items[Len(items)]
             \* x goes after every element whose count is >= its own
             pos  == Cardinality({j \in DOMAIN rest :
                                    rest[j].publications >= x.publications})
         IN  SubSeq(rest, 1, pos) \o <<x>> \o SubSeq(rest, pos + 1, Len(rest))

\* `if limit and len(ids) >= limit`: None and 0 are falsy
Truthy(limit) == limit # NONE /\ limit # 0

\* the dedup loop of treatment_diseases_for_drug (lines 151-159)
RECURSIVE DedupDiseases(_, _, _, _)
DedupDiseases(items, seen, dis_ids, limit) ==
    IF items = <<>> THEN dis_ids
    ELSE LET tgt == Strip(Head(items).target)
             k   == Lower(tgt)
         IN  IF k \notin seen
             THEN IF Truthy(limit) /\ Len(dis_ids) + 1 >= limit
                  THEN Append(dis_ids, tgt)
                  ELSE DedupDiseases(Tail(items), seen \cup {k},
                                     Append(dis_ids, tgt), limit)
             ELSE DedupDiseases(Tail(items), seen, dis_ids, limit)

\* variant: the chemical is matched against the target of the row
RowMatches_ByTarget(it, chemical_id) ==
    /\ SameId(it.target, chemical_id)
    /\ StartsWithDisease(Lower(it.source))

\* the row filter of treatment_diseases_for_drug (lines 144-147)
RowMatches(it, chemical_id) ==
    /\ SameId(it.source, chemical_id)
    /\ StartsWithDisease(Lower(it.target))

TreatmentDiseasesForDrug(chemical_id, limit, strict, ans) ==
    LET r == Get(ans[1].script)
    IN  IF r.raised THEN Raise("RequestException", 1)
        ELSE IF RaisesHTTPError(r.status)
        THEN IF strict THEN Raise("HTTPError", 1)
             ELSE Ret([ids |-> <<>>, count |-> 0], 1)
        ELSE IF ans[1].body.kind # "list"
        THEN Ret([ids |-> <<>>, count |-> 0], 1)
        ELSE LET items == SelectSeq(ans[1].body.rows,
                              LAMBDA it : RowMatches(it, chemical_id))
                 sorted == SortDesc(items)
             IN  Ret([ids   |-> DedupDiseases(sorted, {}, <<>>, limit),
                      count |-> Cardinality({Lower(items[j].target) :
                                               j \in DOMAIN items})], 1)

\* the dedup loop of treatment_drugs_for_disease (lines 111-116)
RECURSIVE DedupChemicals(_, _, _, _)
DedupChemicals(items, seen, chem_ids, limit) ==
    IF items = <<>> THEN chem_ids
    ELSE LET src == Head(items).source
         IN  IF src \notin seen
             THEN IF Truthy(limit) /\ Len(chem_ids) + 1 >= limit
                  THEN Append(chem_ids, src)
                  ELSE DedupChemicals(Tail(items), seen \cup {src},
                                      Append(chem_ids, src), limit)
             ELSE DedupChemicals(Tail(items), seen, chem_ids, limit)

\* the row filter of treatment_drugs_for_disease (line 108)
RowMatchesDisease(it, disease_id) == it.target = disease_id /\ it.source # ""

TreatmentDrugsForDisease(disease_id, limit, strict, ans) ==
    LET r == Get(ans[1].script)
    IN  IF r.raised THEN Raise("RequestException", 1)
        ELSE IF RaisesHTTPError(r.status)
        THEN IF strict THEN Raise("HTTPError", 1)
             ELSE Ret([ids |-> <<>>, count |-> 0], 1)
        ELSE IF ans[1].body.kind # "list"
        THEN Ret([ids |-> <<>>, count |-> 0], 1)
        ELSE LET items == SelectSeq(ans[1].body.rows,
                              LAMBDA it : RowMatchesDisease(it, disease_id))
                 sorted == SortDesc(items)
                 chem_ids == DedupChemicals(sorted, {}, <<>>, limit)
             IN  Ret([ids   |-> IF Truthy(limit)
                                THEN SubSeq(chem_ids, 1, Min(limit, Len(chem_ids)))
                                ELSE chem_ids,
                      count |-> Cardinality({items[j].source : j \in DOMAIN items})],
                     1)

\* ---- search_treatment_evidence

\* all_results[:100] and `len(all_results) >= 100`
MaxResults == 100

\* variant: one page fewer after the first
PageSpan_OneLess == 9 - 1

\* last_page = min(page + 9, max_pages)
PageSpan == 9

\* variant: the accumulated list is returned uncut
CutResults_KeepAll(all_results) == all_results

\* all_results[:100]
CutResults(all_results) == Prefix(all_results, MaxResults)

\* A search body is a record [kind, results, count]; kind tells its JSON
\* shape: "object" (both keys hold values), "list" (the body is a JSON list),
\* "no_results" / "no_count" (the key is missing), "null_results" /
\* "null_count" (the key holds null).
BodyKinds ==
    {"object", "list", "no_results", "null_results", "no_count", "null_count"}

\* j.get(...) on a body that is not a dict raises AttributeError
JsonGetRaises(body) == body.kind = "list"

\* j.get("results", []) or []
JsonResults(body) ==
    IF body.kind \in {"no_results", "null_results"} THEN <<>> ELSE body.results

\* int(None) raises TypeError
IntRaises(body) == body.kind = "null_count"

\* int(j.get("count", 0))
JsonCount(body) == IF body.kind = "no_count" THEN 0 ELSE body.count

\* the loop `for p in range(page + 1, last_page + 1)` (lines 205-220); k is the
\* number of _get calls made so far by this call of the operation
RECURSIVE FetchPages(_, _, _, _, _, _)
FetchPages(p, last_page, all_results, k, strict, ans) ==
    IF p > last_page \/ Len(all_results) >= MaxResults
    THEN Ret(all_results, k)
    ELSE LET r == Get(ans[k + 1].script)
         IN  IF r.raised THEN Raise("RequestException", k + 1)
             ELSE IF RaisesHTTPError(r.status)
             THEN IF strict THEN Raise("HTTPError", k + 1)
                  ELSE Ret(all_results, k + 1)
             ELSE IF JsonGetRaises(ans[k + 1].body)
             THEN Raise("AttributeError", k + 1)
             ELSE LET results_p == JsonResults(ans[k + 1].body)
                  IN  IF results_p = <<>>
                      THEN Ret(all_results, k + 1)
                      ELSE FetchPages(p + 1, last_page, all_results \o results_p,
                                      k + 1, strict, ans)

SearchTreatmentEvidence(start_page, strict, ans) ==
    LET r == Get(ans[1].script)
    IN  IF r.raised THEN Raise("RequestException", 1)
        ELSE IF RaisesHTTPError(r.status)
        THEN IF strict THEN Raise("HTTPError", 1)
             ELSE Ret([results |-> <<>>, total_count |-> 0], 1)
        ELSE IF JsonGetRaises(ans[1].body) THEN Raise("AttributeError", 1)
        ELSE IF IntRaises(ans[1].body) THEN Raise("TypeError", 1)
        ELSE LET first_results == JsonResults(ans[1].body)
                 total_count   == JsonCount(ans[1].body)
                 page_size     == Len(first_results)
             IN  IF page_size = 0 \/ total_count <= page_size
                 THEN Ret([results     |-> CutResults(first_results),
                           total_count |-> total_count], 1)
                 ELSE LET max_pages == (total_count + page_size - 1) \div page_size
                          last_page == Min(start_page + PageSpan, max_pages)
                          f == FetchPages(start_page + 1, last_page, first_results, 1,
                                          strict, ans)
                      IN  IF f.raised THEN f
                          ELSE Ret([results     |-> CutResults(f.val),
                                    total_count |-> total_count], f.nreq)

NoCall == [op |-> "none"]

NoRes == [raised |-> FALSE, exc |-> "pending", val |-> <<>>, nreq |-> 0]

NoFile == <<"no file">>

NoWorld == [auto |-> "none", rel |-> "none", search |-> "none", faultAt |-> 0,
            faultScript |-> <<>>]

\* the driver is not running (SpecGet, SpecClient)
DriverOff ==
    /\ variant = "none" /\ w = NoWorld /\ drugs = <<>> /\ pc = "off"
    /\ si = 1 /\ drug_entities = <<>> /\ de_i = 1 /\ id_i = 1
    /\ indications = <<>> /\ dropped_no_rel = <<>> /\ ind_i = 1 /\ dis_i = 1
    /\ all_pmids = <<>> /\ total_articles = 0 /\ page = 1
    /\ json_file = NoFile /\ csv_file = NoFile /\ writes = <<>> /\ reqs = 0
    /\ resolveLog = <<>> /\ lookupLog = <<>> /\ searchLog = <<>>

GetInit ==
    /\ now = T0
    /\ g_last_ts = 0
    /\ l_last_ts = NONE
    /\ gpc = "idle"
    /\ i = 0
    /\ backoff = Backoff0
    /\ attempts = 0
    /\ firstOutcome = NONE
    /\ lastOutcome = NONE
    /\ ret_status = NONE
    /\ calls = 0
    /\ prev_send = NONE
    /\ last_send = NONE /\ sleeps = <<>>
    /\ call = NoCall
    /\ res = NoRes
    /\ DriverOff

\* A client operation calls _get: a new frame (lines 17-19).
GetCall ==
    /\ gpc \in {"idle", "returned", "raised"}
    /\ calls < MaxCalls
    /\ \E gap \in 0..MaxGap : now' = now + gap
    /\ calls' = calls + 1
    /\ gpc' = "loop"
    /\ i' = 0
    /\ backoff' = Backoff0
    /\ l_last_ts' = NONE
    /\ attempts' = 0
    /\ firstOutcome' = NONE
    /\ lastOutcome' = NONE
    /\ ret_status' = NONE
    /\ sleeps' = <<>>
    /\ UNCHANGED <<g_last_ts, prev_send, last_send, clientVars, driverVars>>

\* One iteration of the loop (lines 20-33): throttle, request, then retry,
\* return or raise.
GetAttempt ==
    /\ gpc = "loop"
    /\ \E o \in Outcomes, lat \in 0..MaxLatency, jit \in 0..MaxJitter :
        LET sendT == now + ThrottleSleep(now, g_last_ts, jit)
            doneT == sendT + lat
            d     == GetDecision(o, i, Retries)
        IN  /\ prev_send' = last_send
            /\ last_send' = sendT
            /\ attempts' = attempts + 1
            /\ firstOutcome' = IF attempts = 0 THEN o ELSE firstOutcome
            /\ lastOutcome' = o
            \* line 24 assigns a name local to _get: the module-level
            \* _last_ts is not rebound (no `global` statement in _get)
            /\ l_last_ts' = IF o # EXC THEN doneT ELSE l_last_ts
            /\ g_last_ts' = g_last_ts
            /\ now' = IF d = "retry" THEN doneT + backoff ELSE doneT
            /\ sleeps' = IF d = "retry" THEN Append(sleeps, backoff) ELSE sleeps
            /\ backoff' = IF d = "retry" THEN NextBackoff(backoff) ELSE backoff
            /\ i' = IF d = "retry" THEN i + 1 ELSE i
            /\ gpc' = CASE d = "retry"  -> "loop"
                        [] d = "return" -> "returned"
                        [] d = "raise"  -> "raised"
            /\ ret_status' = IF d = "return" THEN o ELSE NONE
            /\ UNCHANGED <<calls, clientVars, driverVars>>

GetNext == GetCall \/ GetAttempt

SpecGet == GetInit /\ [][GetNext]_vars

----------------------------------------------------------------------------
\* SpecClient: one call of one client operation on inputs drawn from bounded
\* sets of server answers.

OkScript == <<200, 200, 200, 200>>

\* the server's outcomes for the up to 4 attempts of one _get call
ClientScripts ==
    { OkScript,
      <<503, 200, 200, 200>>,
      <<EXC, 429, 200, 200>>,
      <<404, 200, 200, 200>>,
      <<503, 503, 503, 503>>,
      <<EXC, EXC, EXC, 500>>,
      <<EXC, EXC, EXC, EXC>>,
      <<503, EXC, 502, EXC>> }

Item(n, id) ==
    [label |-> n, name |-> "", text |-> "", id |-> id, identifier |-> "",
     entity_id |-> "", x_id |-> ""]

AutoBodies ==
    { [kind |-> "list",
       items |-> << Item("metformin", "@CHEMICAL_metformin") >>],
      [kind |-> "results",
       items |-> << Item("Metformin", "@CHEMICAL_metformin"),
                    Item("metformin glucuronide", "@CHEMICAL_metformin_glucuronide"),
                    Item("Metformin HCl", "@CHEMICAL_metformin") >>],
      [kind |-> "data",
       items |-> << Item("metformin", "@CHEMICAL_Metformin"),
                    [label |-> "", name |-> "metformin", text |-> "", id |-> "",
                     identifier |-> "@CHEMICAL_metformin", entity_id |-> "",
                     x_id |-> ""],
                    Item("atenolol", ""),
                    [label |-> "", name |-> "", text |-> "Atenolol", id |-> "",
                     identifier |-> "", entity_id |-> "",
                     x_id |-> "@CHEMICAL_atenolol"] >>],
      [kind |-> "list", items |-> <<>>],
      [kind |-> "other", items |-> <<>>] }

Row(src, tgt, pubs) == [source |-> src, target |-> tgt, publications |-> pubs]

RelBodies ==
    { [kind |-> "list",
       rows |-> << Row("@CHEMICAL_metformin", "@DISEASE_type_2_diabetes", 50) >>],
      [kind |-> "list",
       rows |-> << Row("@CHEMICAL_metformin", "@DISEASE_hypertension", 5),
                   Row("@CHEMICAL_Metformin", "@DISEASE_type_2_diabetes", 50),
                   Row("@CHEMICAL_metformin", "@DISEASE_Type_2_Diabetes", 50),
                   Row("@CHEMICAL_metformin", "@GENE_ins", 70),
                   Row("@CHEMICAL_atenolol", "@DISEASE_hypertension", 90),
                   Row("@CHEMICAL_metformin", "@DISEASE_obesity ", 5),
                   Row("@CHEMICAL_metformin", "", 80) >>],
      [kind |-> "list",
       rows |-> << Row("@CHEMICAL_metformin", "@DISEASE_type_2_diabetes", 10),
                   Row("@CHEMICAL_atenolol", "@DISEASE_type_2_diabetes", 10),
                   Row("@CHEMICAL_metformin", "@DISEASE_type_2_diabetes", 30),
                   Row("", "@DISEASE_type_2_diabetes", 99),
                   Row("@GENE_ins", "@DISEASE_type_2_diabetes", 40),
                   Row("@CHEMICAL_atenolol", "@DISEASE_hypertension", 20) >>],
      [kind |-> "list", rows |-> <<>>],
      [kind |-> "other", rows |-> <<>>] }

\* A search server: it holds the results 1..n in pages of s1 results, reports
\* count c with the first page it serves and c2 with the later ones, serves
\* s2 results on the later pages, and answers the failAt-th request of a call
\* with failScript.  A result record is modelled by its pmid (0: no pmid).
Pmid(srv, x) == IF srv.nopmid /\ x % 2 = 0 THEN 0 ELSE x

PageResults(srv, p, k) ==
    LET z  == IF k = 1 THEN srv.s1 ELSE srv.s2
        lo == (p - 1) * srv.s1 + 1
        hi == Min(lo + z - 1, srv.n)
    IN  [j \in 1..Max(0, hi - lo + 1) |-> Pmid(srv, lo + j - 1)]

SearchAnswer(srv, p, k) ==
    [script |-> IF k = srv.failAt THEN srv.failScript ELSE OkScript,
     body   |-> [kind    |-> IF k = 1 THEN srv.kind1 ELSE srv.kind2,
                 results |-> PageResults(srv, p, k),
                 count   |-> IF k = 1 THEN srv.c ELSE srv.c2]]

\* the answers to the successive requests of one call that starts at start_page
SearchAnswers(srv, start_page) ==
    [k \in 1..(PageSpan + 1) |-> SearchAnswer(srv, start_page + k - 1, k)]

MaxStartPage == 3

FailScripts == { <<503, 503, 503, 503>>, <<EXC, EXC, EXC, EXC>> }

ClientSearchServers ==
    { [s1 |-> a, s2 |-> b, n |-> n, c |-> c, c2 |-> c + d, nopmid |-> FALSE,
       failAt |-> f, failScript |-> fs, kind1 |-> "object", kind2 |-> "object"] :
        a \in {0, 3, 12}, b \in {0, 3, 12}, n \in {3, 30, 200},
        c \in {0, 3, 30, 200}, d \in {0, 1}, f \in 0..(PageSpan + 1),
        fs \in FailScripts }
    \cup
    { [s1 |-> 3, s2 |-> 3, n |-> 30, c |-> 30, c2 |-> 30, nopmid |-> FALSE,
       failAt |-> 0, failScript |-> OkScript, kind1 |-> a, kind2 |-> b] :
        a \in BodyKinds, b \in BodyKinds }

ClientCalls ==
    { [op |-> "autocomplete", limit |-> l, strict |-> st,
       ans |-> << [script |-> s1, body |-> b1], [script |-> s2, body |-> b2] >>] :
        l \in {NONE, 10}, st \in BOOLEAN,
        s1 \in ClientScripts, b1 \in AutoBodies,
        s2 \in ClientScripts, b2 \in AutoBodies }
    \cup
    { [op |-> o, id |-> id, limit |-> l, strict |-> st,
       ans |-> << [script |-> s1, body |-> b1] >>] :
        o \in {"diseases_for_drug", "drugs_for_disease"},
        id \in {"@CHEMICAL_metformin", "@DISEASE_type_2_diabetes"},
        l \in {NONE, 0, 1, 2, 10}, st \in BOOLEAN,
        s1 \in ClientScripts, b1 \in RelBodies }
    \cup
    { [op |-> "search", page |-> pg, strict |-> st, srv |-> srv,
       ans |-> SearchAnswers(srv, pg)] :
        pg \in 1..MaxStartPage, st \in BOOLEAN, srv \in ClientSearchServers }

ClientInit ==
    /\ GetInit!1 /\ GetInit!2 /\ GetInit!3 /\ GetInit!4 /\ GetInit!5
    /\ GetInit!6 /\ GetInit!7 /\ GetInit!8 /\ GetInit!9 /\ GetInit!10
    /\ GetInit!11 /\ GetInit!12 /\ GetInit!13
    /\ call \in ClientCalls
    /\ res = NoRes
    /\ DriverOff

Pending == res.exc = "pending"

CallAutocomplete ==
    /\ call.op = "autocomplete" /\ Pending
    /\ res' = PubtatorEntityAutocomplete(call.limit, call.strict, call.ans)
    /\ UNCHANGED <<getVars, call, driverVars>>

CallDiseasesForDrug ==
    /\ call.op = "diseases_for_drug" /\ Pending
    /\ res' = TreatmentDiseasesForDrug(call.id, call.limit, call.strict, call.ans)
    /\ UNCHANGED <<getVars, call, driverVars>>

CallDrugsForDisease ==
    /\ call.op = "drugs_for_disease" /\ Pending
    /\ res' = TreatmentDrugsForDisease(call.id, call.limit, call.strict, call.ans)
    /\ UNCHANGED <<getVars, call, driverVars>>

CallSearch ==
    /\ call.op = "search" /\ Pending
    /\ res' = SearchTreatmentEvidence(call.page, call.strict, call.ans)
    /\ UNCHANGED <<getVars, call, driverVars>>

ClientNext ==
    CallAutocomplete \/ CallDiseasesForDrug \/ CallDrugsForDisease \/ CallSearch

SpecClient == ClientInit /\ [][ClientNext]_vars

----------------------------------------------------------------------------
\* The pipeline drivers: build_pubmed_nodes_edges.py ("nodes_edges") and
\* initial_medgemma_ollama.py ("medgemma").

\* MAX_PMIDS = 10 (nodes_edges); [:50] (medgemma)
MAX_PMIDS == 10

MedgemmaPmidCap == 50

\* MAX_CHEM_IDS, MAX_DISEASES = 200 (nodes_edges); limit=10, limit=25 (medgemma)
MAX_CHEM_IDS == 200

MAX_DISEASES == 200

MedgemmaChemLimit == 10

MedgemmaDiseaseLimit == 25

PmidCap(v) == IF v = "nodes_edges" THEN MAX_PMIDS ELSE MedgemmaPmidCap

\* _nrm(s): lower-case, runs of non-alphanumerics to one space, stripped
Nrm(str) ==
    CASE str = "Metformin-HCl" -> "metformin hcl"
      [] str = "metformin-hcl" -> "metformin hcl"
      [] OTHER -> Lower(str)

\* _chem_id_for(name)
ChemIdFor(name) ==
    CASE name \in {"metformin", "Metformin"} -> "@CHEMICAL_metformin"
      [] name \in {"atenolol", "Atenolol"} -> "@CHEMICAL_atenolol"
      [] name \in {"Metformin-HCl", "metformin-hcl"} -> "@CHEMICAL_metformin_hcl"
      [] OTHER -> "@CHEMICAL_"

\* `qn in kn` on normalized names
Contains(qn, kn) ==
    \/ qn = kn
    \/ <<qn, kn>> \in { <<"metformin", "metformin glucuronide">>,
                        <<"metformin", "metformin hcl">> }

\* any(b in kn for b in _BAD_TOKENS)
HasBadToken(kn) == kn \in {"metformin glucuronide"}

\* _pretty(eid)
Pretty(eid) ==
    CASE eid = "@DISEASE_type_2_diabetes" -> "type 2 diabetes"
      [] eid = "@DISEASE_Type_2_Diabetes" -> "Type 2 Diabetes"
      [] eid = "@DISEASE_hypertension" -> "hypertension"
      [] eid = "@DISEASE_obesity" -> "obesity"
      [] OTHER -> eid

\* variant: repeated elements are kept
Uniq_KeepAll(xs) == xs

\* _uniq(xs) = list(dict.fromkeys(xs)): the first occurrence of each element,
\* in order
Uniq(xs) ==
    LET indexed == [j \in DOMAIN xs |-> <<j, xs[j]>>]
        firsts  == SelectSeq(indexed,
                             LAMBDA e : \A k \in 1..(e[1] - 1) : xs[k] # e[2])
    IN  [j \in DOMAIN firsts |-> firsts[j][2]]

\* [str(r.get("pmid")) for r in results if r.get("pmid")]; a pmid string is
\* modelled by its number
PmidsOf(results) == SelectSeq(results, LAMBDA r : r # 0)

\* variant: the third loop does not look at the denylist
InTier_KeepsBadTokens(t, kv, v, qn, base_id) ==
    CASE t = 1 -> Nrm(kv[1]) = qn
      [] t = 2 -> kv[2] = base_id
      [] t = 3 -> Contains(qn, Nrm(kv[1]))
      [] OTHER -> TRUE

\* the conditions of the four loops of resolve_chemical_ids on a pair (k, v)
InTier(t, kv, v, qn, base_id) ==
    CASE t = 1 -> Nrm(kv[1]) = qn
      [] t = 2 -> kv[2] = base_id
      [] t = 3 -> /\ Contains(qn, Nrm(kv[1]))
                  /\ (v = "nodes_edges" => ~HasBadToken(Nrm(kv[1])))
      [] OTHER -> TRUE

\* one `for k,v in items` loop: the pairs of tier t that are not in pref yet
\* are appended
RECURSIVE AppendTier(_, _, _, _, _, _)
AppendTier(pref, items, t, v, qn, base_id) ==
    IF items = <<>> THEN pref
    ELSE LET kv == Head(items)
         IN  AppendTier(IF /\ InTier(t, kv, v, qn, base_id)
                           /\ ~\E j \in DOMAIN pref : pref[j] = kv
                        THEN Append(pref, kv) ELSE pref,
                        Tail(items), t, v, qn, base_id)

\* variant: the ids are returned in server order
RankIds_ServerOrder(v, items, drug_name, limit) ==
    Prefix([j \in DOMAIN items |-> items[j][2]], limit)

\* lines 50-65 (nodes_edges) / 58-80 (medgemma): the four tiers, then the cut
RankIds(v, items, drug_name, limit) ==
    LET qn      == Nrm(drug_name)
        base_id == ChemIdFor(drug_name)
        p1      == AppendTier(<<>>, items, 1, v, qn, base_id)
        p2      == AppendTier(p1, items, 2, v, qn, base_id)
        p3      == AppendTier(p2, items, 3, v, qn, base_id)
        pref    == AppendTier(p3, items, 4, v, qn, base_id)
    IN  Prefix([j \in DOMAIN pref |-> pref[j][2]], limit)

\* ---- the server of a run: fixed data, and one request of the run (the
\* faultAt-th, 0 = none) whose every attempt fails as faultScript says
ScriptAt(world, ordinal) ==
    IF ordinal = world.faultAt THEN world.faultScript ELSE OkScript

AutoBody(world, query) ==
    CASE world.auto = "exact" ->
           IF query = "metformin"
           THEN [kind |-> "list",
                 items |-> << Item("metformin", "@CHEMICAL_metformin") >>]
           ELSE [kind |-> "list", items |-> <<>>]
      [] world.auto = "multi" ->
           IF query \in {"metformin", "Metformin"}
           THEN [kind |-> "results",
                 items |-> << Item("metformin glucuronide",
                                   "@CHEMICAL_metformin_glucuronide"),
                              Item("Metformin-HCl", "@CHEMICAL_metformin"),
                              Item("metformin", "@CHEMICAL_metformin") >>]
           ELSE IF query = "atenolol"
           THEN [kind |-> "list",
                 items |-> << Item("atenolol", "@CHEMICAL_atenolol") >>]
           ELSE [kind |-> "list", items |-> <<>>]
      [] world.auto = "tiers" ->
           IF query \in {"metformin", "Metformin", "Metformin-HCl",
                         "metformin-hcl", "atenolol"}
           THEN [kind |-> "list",
                 items |-> << Item("metformin glucuronide",
                                   "@CHEMICAL_metformin_glucuronide"),
                              Item("atenolol", "@CHEMICAL_atenolol"),
                              Item("Metformin HCl", "@CHEMICAL_metformin_hcl"),
                              Item("Glucophage", "@CHEMICAL_metformin"),
                              Item("Metformin", "@CHEMICAL_Metformin") >>]
           ELSE [kind |-> "list", items |-> <<>>]
      [] OTHER -> [kind |-> "other", items |-> <<>>]

RelRows(world, cid) ==
    CASE world.rel = "single" ->
           IF cid = "@CHEMICAL_metformin"
           THEN [kind |-> "list",
                 rows |-> << Row("@CHEMICAL_metformin",
                                 "@DISEASE_type_2_diabetes", 50) >>]
           ELSE [kind |-> "list", rows |-> <<>>]
      [] world.rel = "ranked" ->
           IF cid = "@CHEMICAL_metformin"
           THEN [kind |-> "list",
                 rows |-> << Row("@CHEMICAL_metformin", "@DISEASE_hypertension", 5),
                             Row("@CHEMICAL_Metformin", "@DISEASE_type_2_diabetes", 50),
                             Row("@CHEMICAL_metformin", "@DISEASE_Type_2_Diabetes", 50),
                             Row("@CHEMICAL_metformin", "@GENE_ins", 70),
                             Row("@CHEMICAL_atenolol", "@DISEASE_obesity", 90) >>]
           ELSE IF cid = "@CHEMICAL_atenolol"
           THEN [kind |-> "list",
                 rows |-> << Row("@CHEMICAL_atenolol", "@DISEASE_hypertension", 9) >>]
           ELSE [kind |-> "list", rows |-> <<>>]
      [] OTHER -> [kind |-> "other", rows |-> <<>>]

Srv(a, b, n, c, np) ==
    [s1 |-> a, s2 |-> b, n |-> n, c |-> c, c2 |-> c + 1, nopmid |-> np,
     failAt |-> 0, failScript |-> OkScript, kind1 |-> "object", kind2 |-> "object"]

SearchSrv(world, cid, did) ==
    CASE world.search = "small"  -> Srv(3, 3, 3, 3, FALSE)
      [] world.search = "paged"  ->
           IF did = "@DISEASE_type_2_diabetes" THEN Srv(3, 3, 30, 30, TRUE)
           ELSE Srv(3, 3, 3, 3, FALSE)
      [] world.search = "big"    ->
           IF did = "@DISEASE_type_2_diabetes" THEN Srv(3, 12, 200, 200, FALSE)
           ELSE Srv(12, 12, 200, 200, FALSE)
      [] world.search = "sparse" ->
           IF did = "@DISEASE_type_2_diabetes" THEN Srv(1, 0, 200, 200, FALSE)
           ELSE Srv(0, 0, 0, 0, FALSE)
      [] OTHER -> Srv(0, 0, 0, 0, FALSE)

\* the answers to a call's successive requests; g is the ordinal, in the run,
\* of the call's first request
AutoAnswers(world, query, g) ==
    [k \in 1..2 |-> [script |-> ScriptAt(world, g + k - 1),
                     body   |-> AutoBody(world, query)]]

RelAnswers(world, cid, g) ==
    << [script |-> ScriptAt(world, g), body |-> RelRows(world, cid)] >>

DriverSearchAnswers(world, cid, did, start_page, g) ==
    [k \in 1..(PageSpan + 1) |->
        LET srv == SearchSrv(world, cid, did)
            p   == start_page + k - 1
        IN  [script |-> ScriptAt(world, g + k - 1),
             body   |-> [kind    |-> IF k = 1 THEN srv.kind1 ELSE srv.kind2,
                         results |-> PageResults(srv, p, k),
                         count   |-> IF p = 1 THEN srv.c ELSE srv.c2]]]

\* variant: the query with the lower-cased name is sent along with the first
ResolveChemicalIds_SendsBothAtOnce(v, world, g, drug_name, limit) ==
    LET aclimit == IF v = "nodes_edges" THEN NONE ELSE limit
        a1 == PubtatorEntityAutocomplete(aclimit, FALSE,
                                         AutoAnswers(world, drug_name, g))
        a2 == PubtatorEntityAutocomplete(aclimit, FALSE,
                                         AutoAnswers(world, Lower(drug_name), g))
        n  == a1.nreq + a2.nreq
        sps == << <<g, g + a1.nreq - 1>>, <<g, g + a2.nreq - 1>> >>
    IN  IF a1.raised THEN a1
        ELSE IF a2.raised THEN Raise(a2.exc, n)
        ELSE IF a1.val.map # <<>>
        THEN Ret([ids   |-> RankIds(v, a1.val.map, drug_name, limit),
                  total |-> a1.val.total, spans |-> sps], n)
        ELSE IF a2.val.map = <<>>
        THEN Ret([ids |-> <<>>, total |-> 0, spans |-> sps], n)
        ELSE Ret([ids   |-> RankIds(v, a2.val.map, drug_name, limit),
                  total |-> a2.val.total, spans |-> sps], n)

\* resolve_chemical_ids(drug_name, limit); g as above.  spans lists, for each
\* autocomplete call made, the ordinals of its first and last request
ResolveChemicalIds(v, world, g, drug_name, limit) ==
    LET aclimit == IF v = "nodes_edges" THEN NONE ELSE limit
        a1 == PubtatorEntityAutocomplete(aclimit, FALSE,
                                         AutoAnswers(world, drug_name, g))
        sp1 == <<g, g + a1.nreq - 1>>
    IN  IF a1.raised THEN a1
        ELSE IF a1.val.map # <<>>
        THEN Ret([ids   |-> RankIds(v, a1.val.map, drug_name, limit),
                  total |-> a1.val.total,
                  spans |-> <<sp1>>], a1.nreq)
        ELSE LET g2 == g + a1.nreq
                 a2 == PubtatorEntityAutocomplete(aclimit, FALSE,
                           AutoAnswers(world, Lower(drug_name), g2))
                 n  == a1.nreq + a2.nreq
                 sp2 == <<g2, g2 + a2.nreq - 1>>
             IN  IF a2.raised THEN Raise(a2.exc, n)
                 ELSE IF a2.val.map = <<>>
                 THEN Ret([ids |-> <<>>, total |-> 0, spans |-> <<sp1, sp2>>], n)
                 ELSE Ret([ids   |-> RankIds(v, a2.val.map, drug_name, limit),
                           total |-> a2.val.total,
                           spans |-> <<sp1, sp2>>], n)

SeedLists == { <<"metformin">>, <<"Metformin", "atenolol">> }

MaxFaultAt == 12

Worlds ==
    { [auto |-> a, rel |-> r, search |-> sr, faultAt |-> f, faultScript |-> fs] :
        a \in {"exact", "multi"}, r \in {"single", "ranked"},
        sr \in {"small", "paged", "big", "sparse"},
        f \in 0..MaxFaultAt, fs \in FailScripts }

Init ==
    /\ GetInit!1 /\ GetInit!2 /\ GetInit!3 /\ GetInit!4 /\ GetInit!5
    /\ GetInit!6 /\ GetInit!7 /\ GetInit!8 /\ GetInit!9 /\ GetInit!10
    /\ GetInit!11 /\ GetInit!12 /\ GetInit!13
    /\ call = NoCall /\ res = NoRes
    /\ variant \in {"nodes_edges", "medgemma"}
    /\ w \in Worlds
    /\ drugs \in SeedLists
    /\ pc = "stage2"
    /\ si = 1 /\ drug_entities = <<>> /\ de_i = 1 /\ id_i = 1
    /\ indications = <<>> /\ dropped_no_rel = <<>> /\ ind_i = 1 /\ dis_i = 1
    /\ all_pmids = <<>> /\ total_articles = 0 /\ page = 1
    /\ json_file = NoFile /\ csv_file = NoFile /\ writes = <<>> /\ reqs = 0
    /\ resolveLog = <<>> /\ lookupLog = <<>> /\ searchLog = <<>>

\* variant: a seed without ids is kept with its canonical id
ResolvedEntities_FallsBack(des, name, r) ==
    Append(des, [drug_name        |-> name,
                 example_disease  |-> "",
                 entity_ids       |-> IF r.val.ids = <<>>
                                      THEN << ChemIdFor(name) >> ELSE r.val.ids,
                 total_entity_ids |-> r.val.total])

\* stage 2: `if not ids: continue`, else drug_entities.append(...)
ResolvedEntities(des, name, r) ==
    IF r.val.ids = <<>> THEN des
    ELSE Append(des, [drug_name        |-> name,
                      example_disease  |-> "",
                      entity_ids       |-> r.val.ids,
                      total_entity_ids |-> r.val.total])

\* stage 3: `if dis_total == 0 or not diseases`
NoRelations(r) == r.val.count = 0 \/ r.val.ids = <<>>

\* variant: an id without relations is skipped without a record
DropListAfter_Forgets(dropped, dname, cid, r) == dropped

\* stage 3: dropped_no_rel.append(...) when the lookup found no relations
DropListAfter(dropped, dname, cid, r) ==
    IF NoRelations(r)
    THEN Append(dropped, [drug_name |-> dname, drug_id |-> cid])
    ELSE dropped

\* variant: the loop ignores how many PMIDs it has gathered
LoopBreaks_IgnoresCap(pmids_page, all, pg, total) ==
    \/ pmids_page = <<>>
    \/ pg * 10 >= total

\* stage 4 of nodes_edges: the `break` condition of the paging loop,
\* if not pmids_page or len(all_pmids) >= MAX_PMIDS or (page * 10) >= total_articles
LoopBreaks(pmids_page, all, pg, total) ==
    \/ pmids_page = <<>>
    \/ Len(all) >= MAX_PMIDS
    \/ pg * 10 >= total

\* where main() goes when a stage's loop is over
AfterStage2(des) == IF des = <<>> THEN "json" ELSE "stage3"

\* variant: the artifact is written right after stage 3
AfterStage3_SkipsEvidence(inds) == "json"

AfterStage3(inds) == IF inds = <<>> THEN "json" ELSE "stage4"

\* Stage 2, one seed (nodes_edges 94-107, medgemma 141-156)
Stage2Resolve ==
    /\ pc = "stage2" /\ si <= Len(drugs)
    /\ LET name == drugs[si]
           r == ResolveChemicalIds(variant, w, reqs + 1, name,
                    IF variant = "nodes_edges" THEN MAX_CHEM_IDS
                    ELSE MedgemmaChemLimit)
       IN  /\ reqs' = reqs + r.nreq
           /\ IF r.raised
              THEN /\ pc' = "crashed"
                   /\ UNCHANGED <<si, drug_entities, resolveLog>>
              ELSE LET des == ResolvedEntities(drug_entities, name, r)
                   IN  /\ drug_entities' = des
                       /\ resolveLog' = Append(resolveLog,
                                               [seed |-> name, ids |-> r.val.ids,
                                                spans |-> r.val.spans])
                       /\ si' = si + 1
                       /\ pc' = IF si = Len(drugs) THEN AfterStage2(des)
                                ELSE "stage2"
    /\ UNCHANGED <<getVars, clientVars, variant, w, drugs, de_i, id_i, indications,
                   dropped_no_rel, ind_i, dis_i, all_pmids, total_articles, page,
                   json_file, csv_file, writes, lookupLog, searchLog>>

\* Stage 3, one entity id of one drug entity (nodes_edges 113-130,
\* medgemma 161-183)
Stage3Relate ==
    /\ pc = "stage3"
    /\ LET de  == drug_entities[de_i]
           cid == de.entity_ids[id_i]
           lim == IF variant = "nodes_edges" THEN MAX_DISEASES
                  ELSE MedgemmaDiseaseLimit
           r   == TreatmentDiseasesForDrug(cid, lim, FALSE,
                                           RelAnswers(w, cid, reqs + 1))
           lastId == id_i = Len(de.entity_ids)
           lastDe == de_i = Len(drug_entities)
       IN  /\ reqs' = reqs + r.nreq
           /\ IF r.raised
              THEN /\ pc' = "crashed"
                   /\ UNCHANGED <<de_i, id_i, indications, dropped_no_rel, lookupLog>>
              ELSE LET diseases == r.val.ids
                       drop == NoRelations(r)
                       inds == IF drop THEN indications
                               ELSE Append(indications,
                                      [drug_name       |-> de.drug_name,
                                       example_disease |-> de.example_disease,
                                       drug_id         |-> cid,
                                       disease_ids     |->
                                           IF variant = "nodes_edges"
                                           THEN Prefix(diseases, MAX_DISEASES)
                                           ELSE diseases,
                                       total_disease_entities |-> r.val.count,
                                       evidence        |-> <<>>])
                   IN  /\ indications' = inds
                       /\ dropped_no_rel' =
                            DropListAfter(dropped_no_rel, de.drug_name, cid, r)
                       /\ lookupLog' = Append(lookupLog,
                                          [drug_name |-> de.drug_name, drug_id |-> cid,
                                           diseases |-> diseases,
                                           count |-> r.val.count,
                                           first_req |-> reqs + 1,
                                           nreq |-> r.nreq])
                       /\ id_i' = IF lastId THEN 1 ELSE id_i + 1
                       /\ de_i' = IF lastId THEN de_i + 1 ELSE de_i
                       /\ pc' = IF lastId /\ lastDe THEN AfterStage3(inds)
                                ELSE "stage3"
    /\ UNCHANGED <<getVars, clientVars, variant, w, drugs, si, drug_entities,
                   ind_i, dis_i, all_pmids, total_articles, page,
                   json_file, csv_file, writes, resolveLog, searchLog>>

\* variant: the record is put in front of the earlier ones
AppendEvidence_Prepends(rec) ==
    LET ind == indications[ind_i]
        lastDis == dis_i = Len(ind.disease_ids)
        lastInd == ind_i = Len(indications)
    IN  /\ indications' = [indications EXCEPT
                             ![ind_i].evidence = <<rec>> \o @]
        /\ dis_i' = IF lastDis THEN 1 ELSE dis_i + 1
        /\ ind_i' = IF lastDis THEN ind_i + 1 ELSE ind_i
        /\ pc' = IF lastDis /\ lastInd THEN "json" ELSE "stage4"

\* ind["evidence"].append(rec), then on to the next pair
AppendEvidence(rec) ==
    LET ind == indications[ind_i]
        lastDis == dis_i = Len(ind.disease_ids)
        lastInd == ind_i = Len(indications)
    IN  /\ indications' = [indications EXCEPT
                             ![ind_i].evidence = Append(@, rec)]
        /\ dis_i' = IF lastDis THEN 1 ELSE dis_i + 1
        /\ ind_i' = IF lastDis THEN ind_i + 1 ELSE ind_i
        /\ pc' = IF lastDis /\ lastInd THEN "json" ELSE "stage4"

\* Stage 4 of nodes_edges, one iteration of `while True` (lines 138-145) and,
\* when it breaks, lines 146-153
Stage4SearchPaged ==
    /\ pc = "stage4" /\ variant = "nodes_edges"
    /\ LET ind == indications[ind_i]
           cid == ind.drug_id
           did == ind.disease_ids[dis_i]
           r   == SearchTreatmentEvidence(page, FALSE,
                      DriverSearchAnswers(w, cid, did, page, reqs + 1))
       IN  /\ reqs' = reqs + r.nreq
           /\ searchLog' = Append(searchLog,
                              [chemical_id |-> cid, disease_id |-> did,
                               ind |-> ind_i, dis |-> dis_i,
                               start_page |-> page, first_req |-> reqs + 1,
                               nreq |-> r.nreq, raised |-> r.raised])
           /\ IF r.raised
              THEN /\ pc' = "crashed"
                   /\ UNCHANGED <<indications, ind_i, dis_i, all_pmids,
                                  total_articles, page>>
              ELSE LET total == IF page = 1 THEN r.val.total_count
                                ELSE total_articles
                       pmids_page == PmidsOf(r.val.results)
                       all == all_pmids \o pmids_page
                   IN  IF LoopBreaks(pmids_page, all, page, total)
                       THEN /\ AppendEvidence(
                                 [disease_id     |-> did,
                                  disease_name   |-> Pretty(did),
                                  pmids          |-> Prefix(Uniq(all), MAX_PMIDS),
                                  total_articles |-> total,
                                  pages_fetched  |-> page])
                            /\ all_pmids' = <<>>
                            /\ total_articles' = 0
                            /\ page' = 1
                       ELSE /\ all_pmids' = all
                            /\ total_articles' = total
                            /\ page' = page + 1
                            /\ UNCHANGED <<indications, ind_i, dis_i, pc>>
    /\ UNCHANGED <<getVars, clientVars, variant, w, drugs, si, drug_entities,
                   de_i, id_i, dropped_no_rel, json_file, csv_file, writes,
                   resolveLog, lookupLog>>

\* variant: a failed search is recorded with the total -1
SearchOrEmpty_MarksFailure(r) ==
    IF r.raised THEN [results |-> <<>>, total_count |-> 0 - 1] ELSE r.val

\* try: results, article_total = search_treatment_evidence(...)
\* except Exception: results, article_total = [], 0
SearchOrEmpty(r) ==
    IF r.raised THEN [results |-> <<>>, total_count |-> 0] ELSE r.val

\* Stage 4 of medgemma, one pair (lines 188-210)
Stage4SearchFirstPage ==
    /\ pc = "stage4" /\ variant = "medgemma"
    /\ LET ind == indications[ind_i]
           cid == ind.drug_id
           did == ind.disease_ids[dis_i]
           r   == SearchTreatmentEvidence(1, FALSE,
                      DriverSearchAnswers(w, cid, did, 1, reqs + 1))
           results       == SearchOrEmpty(r).results
           article_total == SearchOrEmpty(r).total_count
       IN  /\ reqs' = reqs + r.nreq
           /\ searchLog' = Append(searchLog,
                              [chemical_id |-> cid, disease_id |-> did,
                               ind |-> ind_i, dis |-> dis_i,
                               start_page |-> 1, first_req |-> reqs + 1,
                               nreq |-> r.nreq, raised |-> r.raised])
           /\ AppendEvidence(
                 [disease_id     |-> did,
                  disease_name   |-> Pretty(did),
                  pmids          |-> Prefix(Uniq(PmidsOf(results)), MedgemmaPmidCap),
                  total_articles |-> article_total])
    /\ UNCHANGED <<getVars, clientVars, variant, w, drugs, si, drug_entities,
                   de_i, id_i, dropped_no_rel, all_pmids, total_articles, page,
                   json_file, csv_file, writes, resolveLog, lookupLog>>

\* json.dump(artifact, f) (nodes_edges 164-179, medgemma 226-236)
WriteJson ==
    /\ pc = "json"
    /\ json_file' = [drugs                |-> drugs,
                     drug_entities        |-> drug_entities,
                     indications          |-> indications,
                     dropped_no_relations |-> dropped_no_rel]
    /\ writes' = Append(writes, "json")
    /\ pc' = "csv"
    /\ UNCHANGED <<getVars, clientVars, variant, w, drugs, si, drug_entities,
                   de_i, id_i, indications, dropped_no_rel, ind_i, dis_i,
                   all_pmids, total_articles, page, csv_file, reqs,
                   resolveLog, lookupLog, searchLog>>

\* the rows of one indication in the CSV summary
CsvRowsOf(ind) ==
    [j \in DOMAIN ind.evidence |->
        <<ind.drug_name, ind.drug_id, ind.evidence[j].disease_name,
          ind.evidence[j].disease_id, Len(ind.evidence[j].pmids),
          ind.evidence[j].total_articles>>]

RECURSIVE CsvRows(_)
CsvRows(inds) ==
    IF inds = <<>> THEN <<>>
    ELSE CsvRowsOf(Head(inds)) \o CsvRows(Tail(inds))

\* the CSV summary (nodes_edges 181-187, medgemma 238-261)
WriteCsv ==
    /\ pc = "csv"
    /\ csv_file' = CsvRows(indications)
    /\ writes' = Append(writes, "csv")
    /\ pc' = "done"
    /\ UNCHANGED <<getVars, clientVars, variant, w, drugs, si, drug_entities,
                   de_i, id_i, indications, dropped_no_rel, ind_i, dis_i,
                   all_pmids, total_articles, page, json_file, reqs,
                   resolveLog, lookupLog, searchLog>>

Next ==
    \/ Stage2Resolve
    \/ Stage3Relate
    \/ Stage4SearchPaged
    \/ Stage4SearchFirstPage
    \/ WriteJson
    \/ WriteCsv

Spec == Init /\ [][Next]_vars

----------------------------------------------------------------------------
\* SpecResolve: resolve_chemical_ids called repeatedly with the same
\* arguments against one server.

MaxRepeats == 2

MaxResolveFaultAt == 3

ResolveWorlds ==
    { [auto |-> a, rel |-> "single", search |-> "small", faultAt |-> f,
       faultScript |-> fs] :
        a \in {"exact", "multi", "tiers"}, f \in 0..MaxResolveFaultAt,
        fs \in FailScripts }

ResolveCalls ==
    { [op |-> "resolve", v |-> v, world |-> wd, name |-> nm, limit |-> l,
       runs |-> <<>>] :
        v \in {"nodes_edges", "medgemma"}, wd \in ResolveWorlds,
        nm \in {"metformin", "Metformin", "Metformin-HCl", "atenolol"},
        l \in {2, MedgemmaChemLimit, MAX_CHEM_IDS} }

ResolveInit ==
    /\ GetInit!1 /\ GetInit!2 /\ GetInit!3 /\ GetInit!4 /\ GetInit!5
    /\ GetInit!6 /\ GetInit!7 /\ GetInit!8 /\ GetInit!9 /\ GetInit!10
    /\ GetInit!11 /\ GetInit!12 /\ GetInit!13
    /\ call \in ResolveCalls
    /\ res = NoRes
    /\ DriverOff

\* the requests made by the invocations so far
RECURSIVE RequestsOf(_)
RequestsOf(runs) ==
    IF runs = <<>> THEN 0 ELSE Head(runs).nreq + RequestsOf(Tail(runs))

\* one more invocation of resolve_chemical_ids(name, limit)
CallResolve ==
    /\ call.op = "resolve" /\ Len(call.runs) < MaxRepeats
    /\ LET r == ResolveChemicalIds(call.v, call.world,
                                   RequestsOf(call.runs) + 1,
                                   call.name, call.limit)
       IN  /\ res' = r
           /\ call' = [call EXCEPT !.runs = Append(@, r)]
    /\ UNCHANGED <<getVars, driverVars>>

SpecResolve == ResolveInit /\ [][CallResolve]_vars

----------------------------------------------------------------------------
\* Claims about the client operations, checked under SpecClient.

Returned == call.op # "none" /\ ~Pending

\* C2: one call of search_treatment_evidence returns at most 100 result
\* records and requests at most 10 pages, whatever the start page and the
\* server's answers.
C2_SearchBounds ==
    (Returned /\ call.op = "search") =>
        /\ res.nreq <= 10
        /\ ~res.raised => Len(res.val.results) <= 100

\* C2 witness: a call that requested 10 pages, accumulated more than 100
\* results and returned exactly 100.
C2_Witness ==
    /\ Returned /\ call.op = "search" /\ ~res.raised
    /\ res.nreq = 10
    /\ call.srv.s1 + 9 * call.srv.s2 > 100
    /\ Len(res.val.results) = 100

AllAttemptsFail(script) == \A j \in 1..(Retries + 1) : script[j] \in Transient

\* C7: in lenient mode (strict=False), when every attempt of one of the call's
\* network calls fails (retryable status or transport exception), the client
\* operation returns a result and does not raise.
C7_LenientNeverRaises ==
    (/\ Returned
     /\ ~call.strict
     /\ \E k \in 1..res.nreq : AllAttemptsFail(call.ans[k].script))
        => ~res.raised

\* what the k-th _get call of the running client call came to
Outcome(k) == Get(call.ans[k].script)

FailedRequest(k) == Outcome(k).raised \/ Outcome(k).status >= 400

\* C11: with strict=True, when the final response of any request made by a
\* client operation carries an HTTP error status (4xx or 5xx), the operation
\* raises the HTTP error and returns no result.
C11_StrictRaisesHTTPError ==
    (/\ Returned /\ call.strict
     /\ \E k \in 1..res.nreq :
           ~Outcome(k).raised /\ Outcome(k).status >= 400)
        => (res.raised /\ res.exc = "HTTPError" /\ res.val = <<>>)

\* C11 witness: a strict search whose first page was served and whose later
\* page ended in an error status raised HTTPError.
C11_Witness ==
    /\ Returned /\ call.strict /\ call.op = "search"
    /\ res.nreq >= 2 /\ ~Outcome(res.nreq).raised
    /\ Outcome(res.nreq).status >= 400
    /\ res.raised /\ res.exc = "HTTPError"

\* C12: pubtator_entity_autocomplete makes one call when limit is None and a
\* second one only when a limit is given and the first call succeeded; the
\* returned total_count is the number of items of the first response; in
\* lenient mode a failed first call returns ({}, 0) and a failed second call
\* returns ({}, total_count of the first call).
C12_AutocompleteCalls ==
    (Returned /\ call.op = "autocomplete") =>
        LET firstOk == ~FailedRequest(1)
            n1      == Len(ToList(call.ans[1].body))
            second  == call.limit # NONE /\ firstOk
        IN  /\ res.nreq = IF second THEN 2 ELSE 1
            /\ ~res.raised => res.val.total = IF firstOk THEN n1 ELSE 0
            /\ (~call.strict /\ ~firstOk)
                  => (~res.raised /\ res.val = [map |-> <<>>, total |-> 0])
            /\ (~call.strict /\ second /\ FailedRequest(2))
                  => (~res.raised /\ res.val = [map |-> <<>>, total |-> n1])

RelationCall == call.op \in {"diseases_for_drug", "drugs_for_disease"}

\* the rows of the response that match the requested anchor, in server order
Matching ==
    SelectSeq(call.ans[1].body.rows,
              LAMBDA it : IF call.op = "diseases_for_drug"
                          THEN RowMatches(it, call.id)
                          ELSE RowMatchesDisease(it, call.id))

CounterId(row) ==
    IF call.op = "diseases_for_drug" THEN Strip(row.target) ELSE row.source

CounterKey(row) ==
    IF call.op = "diseases_for_drug" THEN Lower(Strip(row.target)) ELSE row.source

\* row a ranks above row b: more publications, or as many and earlier
Outranks(items, a, b) ==
    \/ items[a].publications > items[b].publications
    \/ items[a].publications = items[b].publications /\ a < b

\* the highest-ranked rows of their ids
BestRows(items) ==
    { j \in DOMAIN items :
        \A m \in DOMAIN items :
            (m # j /\ CounterKey(items[m]) = CounterKey(items[j]))
                => Outranks(items, j, m) }

RankOf(items, j) ==
    1 + Cardinality({m \in BestRows(items) : Outranks(items, m, j)})

ChemicalIds ==
    { "@CHEMICAL_metformin", "@CHEMICAL_Metformin",
      "@CHEMICAL_metformin_glucuronide", "@CHEMICAL_atenolol" }

DiseaseIds ==
    { "@DISEASE_type_2_diabetes", "@DISEASE_Type_2_Diabetes",
      "@DISEASE_hypertension", "@DISEASE_obesity" }

\* C14: every id a relation lookup returns comes from a row whose anchor side
\* is the requested anchor id (letter case apart) and whose counterpart side
\* is an id of the requested kind: @DISEASE_ for a chemical anchor, @CHEMICAL_
\* for a disease anchor.
C14_IdsFromMatchingRows ==
    (Returned /\ RelationCall /\ ~res.raised) =>
        \A p \in DOMAIN res.val.ids :
            \E j \in DOMAIN call.ans[1].body.rows :
                LET row == call.ans[1].body.rows[j]
                IN  IF call.op = "diseases_for_drug"
                    THEN /\ Lower(row.source) = Lower(call.id)
                         /\ Strip(row.target) = res.val.ids[p]
                         /\ res.val.ids[p] \in DiseaseIds
                    ELSE /\ Lower(row.target) = Lower(call.id)
                         /\ row.source = res.val.ids[p]
                         /\ res.val.ids[p] \in ChemicalIds

\* the results of the first k pages served to the call
RECURSIVE PagesUpTo(_)
PagesUpTo(k) ==
    IF k = 0 THEN <<>> ELSE PagesUpTo(k - 1) \o call.ans[k].body.results

\* C19: in lenient mode, when the fetch of a page after the start page fails,
\* search_treatment_evidence fetches no further page and returns, without
\* raising, the results of the pages before it (at most 100) and the
\* total_count of the first page.
C19_LaterPageFailureTruncates ==
    (Returned /\ call.op = "search" /\ ~call.strict) =>
        \A k \in 2..res.nreq :
            FailedRequest(k) =>
                /\ ~res.raised
                /\ res.nreq = k
                /\ res.val.results = Prefix(PagesUpTo(k - 1), 100)
                /\ res.val.total_count = call.ans[1].body.count

----------------------------------------------------------------------------
\* Claims about the pipeline driver, checked under Spec.

Written == pc \in {"csv", "done"}

NoDup(xs) == \A a, b \in DOMAIN xs : a # b => xs[a] # xs[b]

EvidenceOk(inds, cap) ==
    \A a \in DOMAIN inds : \A b \in DOMAIN inds[a].evidence :
        /\ NoDup(inds[a].evidence[b].pmids)
        /\ Len(inds[a].evidence[b].pmids) <= cap

\* C3: every evidence record's pmids list holds no PMID twice and at most
\* the configured cap of PMIDs (10 in nodes_edges, 50 in medgemma), as built
\* in memory and as written to the artifact.
C3_PmidsDedupCapped ==
    LET cap == IF variant = "nodes_edges" THEN 10 ELSE 50
    IN  /\ EvidenceOk(indications, cap)
        /\ Written => EvidenceOk(json_file.indications, cap)

\* C3 witness: a written artifact whose evidence was cut to the cap from a
\* search result that held more PMIDs than the cap, some of them twice
\* (the "big" server serves overlapping pages).
C3_Witness ==
    /\ pc = "done" /\ w.search = "big" /\ w.faultAt = 0
    /\ \E a \in DOMAIN json_file.indications :
         \E b \in DOMAIN json_file.indications[a].evidence :
            /\ json_file.indications[a].evidence[b].disease_id
                 = "@DISEASE_type_2_diabetes"
            /\ Len(json_file.indications[a].evidence[b].pmids)
                 = IF variant = "nodes_edges" THEN 10 ELSE 50

Unresolved(seed) ==
    \E j \in DOMAIN resolveLog :
        resolveLog[j].seed = seed /\ resolveLog[j].ids = <<>>

\* C4 (as claimed): for every seed whose resolution yields zero entity ids,
\* the artifact's drop list contains that seed and no indication record
\* references it.
C4_UnresolvedSeedInDropList ==
    Written =>
        \A j \in DOMAIN drugs : Unresolved(drugs[j]) =>
            /\ \E k \in DOMAIN json_file.dropped_no_relations :
                   json_file.dropped_no_relations[k].drug_name = drugs[j]
            /\ \A k \in DOMAIN json_file.indications :
                   json_file.indications[k].drug_name # drugs[j]

\* C4 (amended): for every seed whose resolution yields zero entity ids, the
\* artifact lists the seed among its drugs, and no drug_entities record, no
\* indication record and no drop-list record references it.
C4_UnresolvedSeedLeftOut ==
    Written =>
        \A j \in DOMAIN drugs : Unresolved(drugs[j]) =>
            /\ \E k \in DOMAIN json_file.drugs : json_file.drugs[k] = drugs[j]
            /\ \A k \in DOMAIN json_file.drug_entities :
                   json_file.drug_entities[k].drug_name # drugs[j]
            /\ \A k \in DOMAIN json_file.indications :
                   json_file.indications[k].drug_name # drugs[j]
            /\ \A k \in DOMAIN json_file.dropped_no_relations :
                   json_file.dropped_no_relations[k].drug_name # drugs[j]

\* C4 witness: an artifact written by a run in which one seed resolved to
\* nothing and another seed got an indication.
C4_Witness ==
    /\ pc = "done"
    /\ \E j \in DOMAIN drugs : Unresolved(drugs[j])
    /\ json_file.indications # <<>>

ZeroRelations(l) == l.count = 0 \/ l.diseases = <<>>

NameAndId(recs) ==
    [j \in DOMAIN recs |-> <<recs[j].drug_name, recs[j].drug_id>>]

RECURSIVE SumIds(_)
SumIds(des) ==
    IF des = <<>> THEN 0 ELSE Len(Head(des).entity_ids) + SumIds(Tail(des))

ScenarioServer ==
    /\ w.faultAt = 0
    /\ AutoBody(w, "metformin")
         = [kind |-> "list", items |-> << Item("metformin", "@CHEMICAL_metformin") >>]
    /\ RelRows(w, "@CHEMICAL_metformin")
         = [kind |-> "list",
            rows |-> << Row("@CHEMICAL_metformin", "@DISEASE_type_2_diabetes", 50) >>]
    /\ SearchAnswer(SearchSrv(w, "@CHEMICAL_metformin", "@DISEASE_type_2_diabetes"),
                    1, 1).body
         = [kind |-> "object", results |-> <<1, 2, 3>>, count |-> 3]

\* C6: end to end, seed list ["metformin"] against the mock server gives an
\* artifact with exactly one indication, for metformin, whose evidence is
\* exactly one record, for type 2 diabetes, with exactly 3 PMIDs and
\* total_articles = 3, and an empty drop list.
C6_EndToEndMetformin ==
    (pc = "done" /\ drugs = <<"metformin">> /\ ScenarioServer) =>
        /\ Len(json_file.indications) = 1
        /\ json_file.indications[1].drug_name = "metformin"
        /\ json_file.indications[1].drug_id = "@CHEMICAL_metformin"
        /\ Len(json_file.indications[1].evidence) = 1
        /\ json_file.indications[1].evidence[1].disease_id
             = "@DISEASE_type_2_diabetes"
        /\ json_file.indications[1].evidence[1].disease_name = "type 2 diabetes"
        /\ json_file.indications[1].evidence[1].pmids = <<1, 2, 3>>
        /\ json_file.indications[1].evidence[1].total_articles = 3
        /\ json_file.dropped_no_relations = <<>>

\* C6 witness: the scenario's run has finished.
C6_Witness ==
    pc = "done" /\ drugs = <<"metformin">> /\ ScenarioServer /\ variant = "nodes_edges"

\* C8: no failure of an individual resolve, relate or search call stops the
\* driver before artifact serialization.
C8_FailuresNeverStopDriver == pc # "crashed"

\* the log entry of the search call made for page 1 of the pair (a, b)
FirstPageCall(a, b) ==
    CHOOSE j \in DOMAIN searchLog :
        searchLog[j].ind = a /\ searchLog[j].dis = b /\ searchLog[j].start_page = 1

\* the first page of the pair was fetched: the call's first request ended in
\* a 200 response
FirstPageFetched(a, b) ==
    LET g == Get(ScriptAt(w, searchLog[FirstPageCall(a, b)].first_req))
    IN  ~g.raised /\ g.status = 200

\* C15: the total_articles recorded for a pair is the count the server
\* reported on the first page fetched for the pair, whatever it reports on
\* later pages and however many PMIDs are kept.
C15_TotalArticlesFromFirstPage ==
    \A a \in DOMAIN indications : \A b \in DOMAIN indications[a].evidence :
        FirstPageFetched(a, b) =>
            indications[a].evidence[b].total_articles
              = SearchSrv(w, indications[a].drug_id,
                          indications[a].evidence[b].disease_id).c

\* the request ordinals <<first, last, call>> taken by every call made so far
CallSpans ==
    UNION { { <<resolveLog[j].spans[k][1], resolveLog[j].spans[k][2], "resolve", j, k>> :
                k \in DOMAIN resolveLog[j].spans } : j \in DOMAIN resolveLog }
    \cup { <<lookupLog[j].first_req, lookupLog[j].first_req + lookupLog[j].nreq - 1,
             "relate", j, 0>> : j \in DOMAIN lookupLog }
    \cup { <<searchLog[j].first_req, searchLog[j].first_req + searchLog[j].nreq - 1,
             "search", j, 0>> : j \in DOMAIN searchLog }

\* C16: no two outbound calls of the driver are in flight at once; no
\* relation lookup of a seed is issued before the seed's resolve call(s)
\* returned; no evidence search of an entity is issued before the entity's
\* relation lookup returned.
C16_OneCallAtATimeInStageOrder ==
    /\ \A s, t \in CallSpans :
          s # t => (s[2] < t[1] \/ t[2] < s[1])
    /\ \A s \in CallSpans : s[1] <= s[2]
    /\ \A l \in DOMAIN lookupLog :
          /\ \E r \in DOMAIN resolveLog :
                resolveLog[r].seed = lookupLog[l].drug_name
          /\ \A r \in DOMAIN resolveLog :
                resolveLog[r].seed = lookupLog[l].drug_name =>
                    \A k \in DOMAIN resolveLog[r].spans :
                        resolveLog[r].spans[k][2] < lookupLog[l].first_req
    /\ \A j \in DOMAIN searchLog :
          \E l \in DOMAIN lookupLog :
             /\ lookupLog[l].drug_id = searchLog[j].chemical_id
             /\ lookupLog[l].first_req + lookupLog[l].nreq - 1
                  < searchLog[j].first_req

\* C16 witness: a finished run in which a seed took two autocomplete calls,
\* two entities were looked up and several searches were made.
C16_Witness ==
    /\ pc = "done"
    /\ \E r \in DOMAIN resolveLog : Len(resolveLog[r].spans) = 2
    /\ Len(lookupLog) >= 2
    /\ Len(searchLog) >= 3

\* every stage has run to its end
StagesComplete ==
    /\ Len(resolveLog) = Len(drugs)
    /\ Len(lookupLog) = SumIds(drug_entities)
    /\ \A a \in DOMAIN indications :
          Len(indications[a].evidence) = Len(indications[a].disease_ids)

----------------------------------------------------------------------------
\* Claims about resolve_chemical_ids, checked under SpecResolve.

\* the autocomplete mapping the server gives for a query, as (name, id) pairs
MapFor(query) == BuildOut(ToList(AutoBody(call.world, query)), <<>>)

\* the earliest of the four tiers an entry belongs to
TierOf(kv) ==
    LET qn == Nrm(call.name)
        kn == Nrm(kv[1])
    IN  IF kn = qn THEN 1
        ELSE IF kv[2] = ChemIdFor(call.name) THEN 2
        ELSE IF Contains(qn, kn) /\ ~HasBadToken(kn) THEN 3
        ELSE 4

\* the place of entry j: after the entries of earlier tiers and the earlier
\* entries of its own tier
PlaceOf(items, j) ==
    1 + Cardinality({ m \in DOMAIN items :
                        \/ TierOf(items[m]) < TierOf(items[j])
                        \/ TierOf(items[m]) = TierOf(items[j]) /\ m < j })

TieredIds(items, ids) ==
    /\ Len(ids) = Min(call.limit, Len(items))
    /\ \A p \in DOMAIN ids :
         \E j \in DOMAIN items : PlaceOf(items, j) = p /\ ids[p] = items[j][2]

\* C17: resolve_chemical_ids of build_pubmed_nodes_edges returns the ids of
\* the autocomplete mapping in four tiers (normalized name equals the
\* normalized seed; id equals the canonical id; normalized name contains the
\* normalized seed and no denylisted token; the rest), each tier in server
\* order, each entry once in its earliest tier, cut to the cap.
C17_FourTiers ==
    (call.op = "resolve" /\ call.v = "nodes_edges") =>
        \A a \in DOMAIN call.runs :
            (~call.runs[a].raised /\ call.runs[a].val.ids # <<>>) =>
                \E q \in {call.name, Lower(call.name)} :
                    /\ MapFor(q) # <<>>
                    /\ TieredIds(MapFor(q), call.runs[a].val.ids)

\* C17 witness: a mapping with an entry in each of the four tiers, returned
\* in tier order.
C17_Witness ==
    /\ call.op = "resolve" /\ call.v = "nodes_edges" /\ call.name = "Metformin"
    /\ call.world.auto = "tiers" /\ call.limit = 200
    /\ call.runs # <<>>
    /\ call.runs[1].val.ids
         = << "@CHEMICAL_Metformin", "@CHEMICAL_metformin", "@CHEMICAL_metformin_hcl",
              "@CHEMICAL_metformin_glucuronide", "@CHEMICAL_atenolol" >>

----------------------------------------------------------------------------
\* Claims about _throttle / _get, checked under SpecGet.

\* C1: every two consecutive outbound requests are at least _MIN_INTERVAL
\* apart (the rate gate's contract).
C1_MinIntervalBetweenRequests ==
    prev_send # NONE => last_send - prev_send >= MinInterval

\* C9: _get repeats a request only after a 429/500/502/503/504 response or a
\* transport exception; a response with any other status is returned at once,
\* and when it answers the first request, that request is the only one.
C9_RetryOnlyOnTransient ==
    /\ (gpc = "loop" /\ attempts >= 1) => lastOutcome \in Transient
    /\ (attempts >= 1 /\ lastOutcome \notin Transient)
          => (gpc = "returned" /\ ret_status = lastOutcome)
    /\ (attempts >= 1 /\ firstOutcome \notin Transient) => attempts = 1

\* C9 witness: a 404 answered the first request and was returned after that
\* single request.
C9_Witness ==
    gpc = "returned" /\ ret_status = 404 /\ firstOutcome = 404 /\ attempts = 1

\* C10 (as claimed): one _get call makes at most 3 HTTP attempts.
C10_AtMostThreeAttempts == attempts <= 3

\* C10 (amended): one _get call with the default retries=3 makes at most
\* 4 HTTP attempts, the first one and at most 3 retries.
C10_AtMostRetriesPlusOne == attempts <= 4

\* C10 witness: a call that used all 4 attempts.
C10_Witness == attempts = 4 /\ gpc \in {"returned", "raised"}

\* C21: after every HTTP request that _get completed, the module-level
\* _last_ts read by _throttle equals the completion time of that request.
C21_LastTsIsLastCompletion ==
    (attempts >= 1 /\ lastOutcome # EXC) => g_last_ts = l_last_ts

\* C22: _get is over after at most retries+1 HTTP requests, and the backoff
\* slept between consecutive attempts is 0.5 s, then 1 s, then 2 s (3, 6, 12
\* ticks).
C22_BoundedAttemptsDoublingBackoff ==
    /\ attempts <= Retries + 1
    /\ (attempts = Retries + 1) => gpc \in {"returned", "raised"}
    /\ Len(sleeps) <= 3
    /\ sleeps = SubSeq(<<3, 6, 12>>, 1, Len(sleeps))
    /\ gpc \in {"returned", "raised"} => Len(sleeps) = attempts - 1
    /\ gpc = "loop" => Len(sleeps) = attempts

\* C22 witness: a call that made all four requests and slept 0.5, 1 and 2 s
\* between them.
C22_Witness ==
    gpc = "raised" /\ attempts = 4 /\ sleeps = <<3, 6, 12>>

\* ---------------------------------------------------------------------------
\* search_treatment_evidence on a uniformly paged server (SpecClient)
\* ---------------------------------------------------------------------------

\* the server holds n results in pages of one size s > 0 and reports n as the
\* count with every page
UniformServer(srv) ==
    /\ srv.s1 > 0 /\ srv.s2 = srv.s1
    /\ srv.c = srv.n /\ srv.c2 = srv.n
    /\ srv.kind1 = "object" /\ srv.kind2 = "object"
    /\ ~srv.nopmid

\* no request of the finished call was answered by the failing script
NoFetchFailed == call.srv.failAt = 0 \/ call.srv.failAt > res.nreq

\* C23: with start page 1, no failing fetch and N results served in pages of
\* a uniform size s, search_treatment_evidence returns exactly the first
\* min(N, 10*s, 100) results in server order.
C23_UniformPagesPrefix ==
    (call.op = "search" /\ ~Pending /\ call.page = 1
        /\ UniformServer(call.srv) /\ NoFetchFailed)
    => /\ ~res.raised
       /\ res.val.results =
            [j \in 1..Min(call.srv.n, Min(10 * call.srv.s1, MaxResults)) |-> j]
       /\ res.val.total_count = call.srv.n

\* C23 witness: 30 results in pages of 12, returned whole from three pages.
C23_Witness ==
    /\ call.op = "search" /\ ~Pending /\ call.page = 1
    /\ UniformServer(call.srv) /\ NoFetchFailed
    /\ call.srv.n = 30 /\ call.srv.s1 = 12
    /\ res.nreq = 3 /\ Len(res.val.results) = 30

\* ---------------------------------------------------------------------------
\* the drivers' lists and evidence records (Spec)
\* ---------------------------------------------------------------------------

\* C24: the id list resolve_chemical_ids returns for a seed holds no entity id
\* twice, so stage 3 looks no entity id up twice for one seed.
C24_NoIdTwicePerSeed ==
    /\ \A j \in DOMAIN resolveLog : NoDup(resolveLog[j].ids)
    /\ \A a, b \in DOMAIN lookupLog :
          a # b => ~(/\ lookupLog[a].drug_name = lookupLog[b].drug_name
                     /\ lookupLog[a].drug_id = lookupLog[b].drug_id)

\* ---------------------------------------------------------------------------
\* body shapes (SpecClient)
\* ---------------------------------------------------------------------------

\* every request of the call was answered with a success status at once
AllAnswersOk == \A k \in DOMAIN call.ans : call.ans[k].script = OkScript

\* C25: whatever the shape of the JSON bodies returned with a success status
\* (missing keys, a null count, a body that is not the expected list or
\* object), the client operation returns and does not raise.
C25_AnyBodyShapeReturns ==
    (~Pending /\ call.op # "none" /\ AllAnswersOk) => ~res.raised

\* the calls of search_treatment_evidence made for the b-th disease of the
\* a-th indication
SearchCallsFor(a, b) ==
    { j \in DOMAIN searchLog : searchLog[j].ind = a /\ searchLog[j].dis = b }

\* C26: in build_pubmed_nodes_edges the stage-4 paging loop of a pair is over
\* after at most MAX_PMIDS (10) calls of search_treatment_evidence.
C26_PagingLoopBounded ==
    variant = "nodes_edges" =>
        /\ page <= MAX_PMIDS
        /\ \A a \in DOMAIN indications :
             \A b \in DOMAIN indications[a].disease_ids :
                /\ Cardinality(SearchCallsFor(a, b)) <= MAX_PMIDS
                /\ Cardinality(SearchCallsFor(a, b)) = MAX_PMIDS
                     => ~(pc = "stage4" /\ ind_i = a /\ dis_i = b)

\* C26 witness: a pair whose loop ran the full 10 calls and then recorded its
\* evidence.
C26_Witness ==
    /\ variant = "nodes_edges"
    /\ \E a \in DOMAIN indications :
         \E b \in DOMAIN indications[a].evidence :
            /\ Cardinality(SearchCallsFor(a, b)) = MAX_PMIDS
            /\ Len(indications[a].evidence[b].pmids) = MAX_PMIDS

\* the number of search pages requested from the server by the first j calls
\* of search_treatment_evidence that were made for pair (a, b)
RECURSIVE PagesRequested(_, _, _)
PagesRequested(a, b, j) ==
    IF j = 0 THEN 0
    ELSE PagesRequested(a, b, j - 1)
         + (IF searchLog[j].ind = a /\ searchLog[j].dis = b
            THEN searchLog[j].nreq ELSE 0)

\* C27: the pages_fetched value of an evidence record equals the number of
\* search pages actually requested from the server for that pair.
C27_PagesFetchedIsPagesRequested ==
    variant = "nodes_edges" =>
        \A a \in DOMAIN indications :
            \A b \in DOMAIN indications[a].evidence :
                indications[a].evidence[b].pages_fetched
                    = PagesRequested(a, b, Len(searchLog))

\* the (drug_name, drug_id) pair is in the list of records recs
HasPair(recs, dname, cid) ==
    \E j \in DOMAIN recs : recs[j].drug_name = dname /\ recs[j].drug_id = cid

\* C28: at artifact serialization every (drug_name, entity id) pair that
\* stage 2 produced is in exactly one of the lists indications and
\* dropped_no_relations.
C28_PairInExactlyOneList ==
    Written =>
        \A d \in DOMAIN drug_entities :
            \A k \in DOMAIN drug_entities[d].entity_ids :
                LET dname == drug_entities[d].drug_name
                    cid   == drug_entities[d].entity_ids[k]
                IN  HasPair(indications, dname, cid)
                        # HasPair(dropped_no_rel, dname, cid)

\* C29: at artifact serialization each indication's evidence list has exactly
\* one record per entry of its disease_ids list, in the same order.
C29_EvidenceFollowsDiseaseIds ==
    Written =>
        \A a \in DOMAIN json_file.indications :
            LET ind == json_file.indications[a]
            IN  /\ Len(ind.evidence) = Len(ind.disease_ids)
                /\ \A b \in DOMAIN ind.disease_ids :
                      ind.evidence[b].disease_id = ind.disease_ids[b]

\* C29 witness: a written artifact with an indication of two different
\* diseases and their two evidence records.
C29_Witness ==
    /\ Written
    /\ \E a \in DOMAIN json_file.indications :
         LET ind == json_file.indications[a]
         IN  /\ Len(ind.disease_ids) >= 2
             /\ Len(ind.evidence) = Len(ind.disease_ids)
             /\ ind.evidence[1].disease_id # ind.evidence[2].disease_id

\* the evidence records present now are present, unchanged and at the same
\* places, after the step
EarlierEvidenceKept ==
    \A a \in DOMAIN indications :
        \A b \in DOMAIN indications[a].evidence :
            /\ a \in DOMAIN indications'
            /\ b \in DOMAIN indications'[a].evidence
            /\ indications'[a].evidence[b] = indications[a].evidence[b]

\* what stage 4 of initial_medgemma_ollama has recorded for the pairs whose
\* search raised
FailedSearchesRecorded ==
    (variant = "medgemma" /\ searchLog # <<>>) =>
        /\ pc \in {"stage4", "json", "csv", "done"}
        /\ pc = "stage4" => Len(indications[ind_i].evidence) = dis_i - 1
        /\ \A j \in DOMAIN searchLog :
              LET ev == indications[searchLog[j].ind].evidence
              IN  /\ searchLog[j].dis \in DOMAIN ev
                  /\ ev[searchLog[j].dis].disease_id = searchLog[j].disease_id
                  /\ searchLog[j].raised =>
                        /\ ev[searchLog[j].dis].pmids = <<>>
                        /\ ev[searchLog[j].dis].total_articles = 0

\* C30: in initial_medgemma_ollama, when search_treatment_evidence raises for
\* a pair, a record with no pmids and total_articles = 0 is appended for that
\* pair, stage 4 goes on with the next pair, and the records appended before
\* stay as they were.
C30_FailedSearchRecordedEmpty ==
    /\ []FailedSearchesRecorded
    /\ [][(variant = "medgemma" /\ pc = "stage4") => EarlierEvidenceKept]_vars

\* C30 witness: a search raised after a record with PMIDs had been appended
\* to the same indication, stage 4 went on to a further pair, and the
\* artifact was written.
C30_Witness ==
    /\ variant = "medgemma" /\ Written
    /\ \E j \in DOMAIN searchLog :
         /\ searchLog[j].raised
         /\ j < Len(searchLog)
         /\ \E k \in DOMAIN searchLog :
              /\ k < j
              /\ searchLog[k].ind = searchLog[j].ind
              /\ indications[searchLog[k].ind].evidence[searchLog[k].dis].pmids
                    # <<>>

====
